---- MODULE Spec2Model ----
(***************************************************************************)
(* builtin/sparse-checkout.c: the sparse-checkout builtin (list, init,     *)
(* set, disable), its cone-pattern serializer and the transaction it runs  *)
(* over the pattern file, the index and the two config flags.              *)
(*                                                                         *)
(* A string is a sequence of one-character strings, so that trimming,      *)
(* strrchr, prefixing and strcmp are computed as the C code computes them. *)
(* A file is a sequence of lines (each line without its terminating LF).   *)
(***************************************************************************)
EXTENDS Integers, Sequences, FiniteSets, TLC

(***************************************************************************)
(* Bounds of the model.                                                    *)
(***************************************************************************)
MaxArgs == 3

(***************************************************************************)
(* Strings.                                                                *)
(***************************************************************************)
\* The byte value of a character (the order strcmp sorts by).
Ord(c) ==
    CASE c = " " -> 32
      [] c = "!" -> 33
      [] c = "#" -> 35
      [] c = "*" -> 42
      [] c = "/" -> 47
      [] c = "a" -> 97
      [] c = "d" -> 100
      [] c = "e" -> 101
      [] c = "f" -> 102
      [] c = "g" -> 103
      [] c = "n" -> 110
      [] OTHER -> 122

\* strcmp(s, t) < 0
RECURSIVE StrLess(_, _)
StrLess(s, t) ==
    IF t = <<>> THEN FALSE
    ELSE IF s = <<>> THEN TRUE
    ELSE IF Head(s) # Head(t) THEN Ord(Head(s)) < Ord(Head(t))
    ELSE StrLess(Tail(s), Tail(t))

\* strrchr(s, '/') as a 1-based position, 0 for NULL
LastSlash(s) ==
    LET at == {i \in 1..Len(s) : s[i] = "/"}
    IN  IF at = {} THEN 0 ELSE CHOOSE i \in at : \A j \in at : j <= i

Prefix(s, n) == SubSeq(s, 1, n)

IsSpace(c) == c = " "

\* strbuf_ltrim then strbuf_rtrim
RECURSIVE strbuf_ltrim(_)
strbuf_ltrim(s) ==
    IF s # <<>> /\ IsSpace(Head(s)) THEN strbuf_ltrim(Tail(s)) ELSE s

RECURSIVE strbuf_rtrim(_)
strbuf_rtrim(s) ==
    IF s # <<>> /\ IsSpace(s[Len(s)]) THEN strbuf_rtrim(Prefix(s, Len(s) - 1)) ELSE s

strbuf_trim(s) == strbuf_ltrim(strbuf_rtrim(s))

\* while (sb->len > 0 && is_dir_sep(sb->buf[sb->len - 1])) sb->len--;
RECURSIVE strbuf_trim_trailing_dir_sep(_)
strbuf_trim_trailing_dir_sep(s) ==
    IF s # <<>> /\ s[Len(s)] = "/"
    THEN strbuf_trim_trailing_dir_sep(Prefix(s, Len(s) - 1))
    ELSE s

\* string_list_sort + string_list_remove_duplicates of a set of strings
RECURSIVE string_list_sort(_)
string_list_sort(S) ==
    IF S = {} THEN <<>>
    ELSE LET m == CHOOSE x \in S : \A y \in S \ {x} : StrLess(x, y)
         IN  <<m>> \o string_list_sort(S \ {m})

(***************************************************************************)
(* struct pattern_list: the ordered patterns of the general dialect and,   *)
(* in cone mode, recursive_hashmap and parent_hashmap.                     *)
(***************************************************************************)
EmptyPl(cone) ==
    [patterns |-> <<>>, use_cone_patterns |-> cone, full_cone |-> FALSE,
     recursive_hashmap |-> {}, parent_hashmap |-> {}]

\* The key the first turn of the while loop visits, and no other.
ParentKeysDirectOnly(e) ==
    IF LastSlash(e) <= 1 THEN {} ELSE {Prefix(e, LastSlash(e) - 1)}

\* The keys the while loop of insert_recursive_pattern visits after e:
\* each is the previous key cut at its last slash, until that slash is the
\* first character.
RECURSIVE ParentKeys(_)
ParentKeys(e) ==
    IF Len(e) = 0 THEN {}
    ELSE LET slash == LastSlash(e)
         IN  IF slash <= 1 THEN {}
             ELSE {Prefix(e, slash - 1)} \cup ParentKeys(Prefix(e, slash - 1))

\* The parent set rebuilt from the inserted path alone.
insert_recursive_pattern_resetting_parents(pl, path) ==
    [pl EXCEPT !.recursive_hashmap = @ \cup {path},
               !.parent_hashmap = ParentKeys(path)]

insert_recursive_pattern(pl, path) ==
    [pl EXCEPT !.recursive_hashmap = @ \cup {path},
               !.parent_hashmap = @ \cup ParentKeys(path)]

\* A line inserted with its trailing directory separators.
strbuf_to_cone_pattern_keeping_dir_sep(line, pl) ==
    LET trimmed == strbuf_trim(line)
    IN  IF Len(trimmed) = 0 THEN pl
        ELSE IF trimmed[1] # "/"
             THEN insert_recursive_pattern(pl, <<"/">> \o trimmed)
             ELSE insert_recursive_pattern(pl, trimmed)

\* A line inserted whatever is left of it after trimming.
strbuf_to_cone_pattern_unchecked(line, pl) ==
    LET trimmed == strbuf_trim_trailing_dir_sep(strbuf_trim(line))
    IN  IF trimmed # <<>> /\ trimmed[1] = "/"
        THEN insert_recursive_pattern(pl, trimmed)
        ELSE insert_recursive_pattern(pl, <<"/">> \o trimmed)

strbuf_to_cone_pattern(line, pl) ==
    LET trimmed == strbuf_trim_trailing_dir_sep(strbuf_trim(line))
    IN  IF Len(trimmed) = 0 THEN pl
        ELSE IF trimmed[1] # "/"
             THEN insert_recursive_pattern(pl, <<"/">> \o trimmed)
             ELSE insert_recursive_pattern(pl, trimmed)

\* hashmap_contains_parent(map, path): some key obtained from path by
\* cutting it at its last slash, repeatedly, is in map.
RECURSIVE ContainsParentFrom(_, _)
ContainsParentFrom(map, buffer) ==
    LET slash == LastSlash(buffer)
    IN  IF slash <= 1 THEN FALSE
        ELSE IF Prefix(buffer, slash - 1) \in map THEN TRUE
        ELSE ContainsParentFrom(map, Prefix(buffer, slash - 1))

hashmap_contains_parent(map, path) ==
    ContainsParentFrom(map, IF path # <<>> /\ path[1] = "/" THEN path ELSE <<"/">> \o path)

\* A parent entry written without its negation line.
ParentPairWithoutNegation(pattern) == << pattern \o <<"/">> >>

\* fprintf(fp, "%s/\n!%s/*/\n", pattern, pattern)
ParentPair(pattern) ==
    << pattern \o <<"/">>, <<"!">> \o pattern \o <<"/", "*", "/">> >>

RECURSIVE ParentLines(_)
ParentLines(sl) ==
    IF sl = <<>> THEN <<>>
    ELSE (IF Len(Head(sl)) > 0 THEN ParentPair(Head(sl)) ELSE <<>>)
         \o ParentLines(Tail(sl))

RECURSIVE RecursiveLines(_)
RecursiveLines(sl) ==
    IF sl = <<>> THEN <<>>
    ELSE << Head(sl) \o <<"/">> >> \o RecursiveLines(Tail(sl))

ConeHeader == << <<"/", "*">>, <<"!", "/", "*", "/">> >>

\* The parent keys the first loop of write_cone_to_file collects.
ConeParents(pl) ==
    {pe \in pl.parent_hashmap :
        /\ pe \notin pl.recursive_hashmap
        /\ ~hashmap_contains_parent(pl.recursive_hashmap, pe)}

\* Every recursive key collected, with no key left out for its ancestors.
ConeRecursivesUnpruned(pl) == pl.recursive_hashmap

\* The recursive keys the second loop of write_cone_to_file collects.
ConeRecursives(pl) ==
    {pe \in pl.recursive_hashmap :
        ~hashmap_contains_parent(pl.recursive_hashmap, pe)}

write_cone_to_file(pl) ==
    ConeHeader
    \o ParentLines(string_list_sort(ConeParents(pl)))
    \o RecursiveLines(string_list_sort(ConeRecursives(pl)))

(***************************************************************************)
(* The general dialect: add_pattern and write_patterns_to_file.            *)
(***************************************************************************)
\* parse_path_pattern: a leading "!" is the negative flag, one trailing "/"
\* the must-be-directory flag; the rest is the pattern text.
add_pattern(string, pl) ==
    LET neg  == string # <<>> /\ string[1] = "!"
        p    == IF neg THEN Tail(string) ELSE string
        dir  == p # <<>> /\ p[Len(p)] = "/"
        text == IF dir THEN Prefix(p, Len(p) - 1) ELSE p
    IN  [pl EXCEPT !.patterns =
            Append(@, [pattern |-> text, negative |-> neg, mustbedir |-> dir])]

\* A pattern written without the "!" of its negative flag.
PatternLineWithoutNegation(p) ==
    p.pattern \o (IF p.mustbedir THEN <<"/">> ELSE <<>>)

\* A pattern written without the "/" of its must-be-directory flag.
PatternLineWithoutDirSlash(p) ==
    (IF p.negative THEN <<"!">> ELSE <<>>) \o p.pattern

\* lines 31-42: "!" for PATTERN_FLAG_NEGATIVE, the pattern, "/" for
\* PATTERN_FLAG_MUSTBEDIR
PatternLine(p) ==
    (IF p.negative THEN <<"!">> ELSE <<>>)
    \o p.pattern
    \o (IF p.mustbedir THEN <<"/">> ELSE <<>>)

RECURSIVE PatternLines(_)
PatternLines(ps) ==
    IF ps = <<>> THEN <<>>
    ELSE <<PatternLine(Head(ps))>> \o PatternLines(Tail(ps))

write_patterns_to_file(pl) == PatternLines(pl.patterns)

(***************************************************************************)
(* Reading the pattern file (dir.c: add_patterns_from_file_to_list and     *)
(* add_pattern_to_hashsets).  Blank lines and lines starting with "#" are  *)
(* skipped.  In cone mode every pattern is also entered into the hash      *)
(* sets; a pattern outside the cone dialect turns cone matching off.       *)
(***************************************************************************)
HasGlob(s) == \E i \in 1..Len(s) : s[i] = "*"

EndsWithSlashStar(s) ==
    Len(s) > 2 /\ s[Len(s) - 1] = "/" /\ s[Len(s)] = "*"

\* A key of the hash sets: leading "/", no trailing "/", no "//", no glob
\* character.
IsCanonicalKey(s) ==
    /\ Len(s) > 0
    /\ s[1] = "/"
    /\ s[Len(s)] # "/"
    /\ \A i \in 1..(Len(s) - 1) : ~(s[i] = "/" /\ s[i + 1] = "/")
    /\ ~HasGlob(s)

NotCone(pl) ==
    [pl EXCEPT !.use_cone_patterns = FALSE, !.full_cone = FALSE,
               !.recursive_hashmap = {}, !.parent_hashmap = {}]

add_pattern_to_hashsets(pl, given) ==
    IF ~pl.use_cone_patterns THEN pl
    ELSE IF given.negative /\ given.mustbedir /\ given.pattern = <<"/", "*">>
    THEN [pl EXCEPT !.full_cone = FALSE]
    ELSE IF ~given.negative /\ ~given.mustbedir /\ given.pattern = <<"/", "*">>
    THEN [pl EXCEPT !.full_cone = TRUE]
    ELSE IF EndsWithSlashStar(given.pattern)
    THEN LET truncated == Prefix(given.pattern, Len(given.pattern) - 2)
         IN  IF ~given.negative \/ truncated \notin pl.recursive_hashmap
             THEN NotCone(pl)
             ELSE [pl EXCEPT !.recursive_hashmap = @ \ {truncated}]
    ELSE IF given.negative \/ ~IsCanonicalKey(given.pattern)
    THEN NotCone(pl)
    ELSE [pl EXCEPT !.recursive_hashmap = @ \cup {given.pattern},
                    !.parent_hashmap = @ \cup {given.pattern}]

RECURSIVE add_patterns_from_buffer(_, _)
add_patterns_from_buffer(lines, pl) ==
    IF lines = <<>> THEN pl
    ELSE LET entry == Head(lines)
         IN  IF entry = <<>> \/ entry[1] = "#"
             THEN add_patterns_from_buffer(Tail(lines), pl)
             ELSE LET added == add_pattern(entry, pl)
                      given == added.patterns[Len(added.patterns)]
                  IN  add_patterns_from_buffer(Tail(lines),
                                               add_pattern_to_hashsets(added, given))

add_patterns_from_file_to_list(lines, cone) ==
    add_patterns_from_buffer(lines, EmptyPl(cone))

(***************************************************************************)
(* The matcher (dir.c: path_matches_pattern_list).  A path is a string     *)
(* with a leading "/"; the root directory is the empty string.             *)
(***************************************************************************)
ParentDir(path) == Prefix(path, LastSlash(path) - 1)

Basename(path) == SubSeq(path, LastSlash(path) + 1, Len(path))

\* Does one general-dialect pattern match the path?  Supported shapes:
\* a literal path, a literal name, and "<dir>/*".
PatternMatches(p, path, isdir) ==
    /\ p.mustbedir => isdir
    /\ IF p.pattern = <<"/", "*">> \/ EndsWithSlashStar(p.pattern)
       THEN /\ ParentDir(path) = Prefix(p.pattern, Len(p.pattern) - 2)
            /\ Len(Basename(path)) > 0
       ELSE IF HasGlob(p.pattern) THEN FALSE
       ELSE IF LastSlash(p.pattern) = 0 THEN Basename(path) = p.pattern
       ELSE IF p.pattern[1] = "/" THEN path = p.pattern
       ELSE path = <<"/">> \o p.pattern

\* General dialect: the last matching pattern wins; a path no pattern
\* matches takes the verdict of its directory; the root is excluded.
RECURSIVE GeneralIncluded(_, _, _)
GeneralIncluded(patterns, path, isdir) ==
    IF path = <<>> THEN FALSE
    ELSE LET hits == {i \in 1..Len(patterns) : PatternMatches(patterns[i], path, isdir)}
         IN  IF hits # {}
             THEN ~patterns[CHOOSE i \in hits : \A j \in hits : j <= i].negative
             ELSE GeneralIncluded(patterns, ParentDir(path), TRUE)

\* Is key a a strict ancestor directory of key k?
IsAncestor(a, k) ==
    /\ Len(a) < Len(k)
    /\ Prefix(k, Len(a)) = a
    /\ k[Len(a) + 1] = "/"

\* Cone dialect, for a directory key: the recursive keys and what is below
\* them.
ConeDirBelowRecursive(pl, dir) ==
    \/ dir \in pl.recursive_hashmap
    \/ hashmap_contains_parent(pl.recursive_hashmap, dir)

\* Cone dialect, for a directory key.
ConeDirIncluded(pl, dir) ==
    \/ dir \in pl.recursive_hashmap
    \/ hashmap_contains_parent(pl.recursive_hashmap, dir)
    \/ dir \in pl.parent_hashmap
    \/ \E r \in pl.recursive_hashmap : IsAncestor(dir, r)

\* Cone dialect, for a file: every file of the root is included, any other
\* file is included with its directory.
ConeIncluded(pl, path) ==
    \/ pl.full_cone
    \/ ParentDir(path) = <<>>
    \/ ConeDirIncluded(pl, ParentDir(path))

Included(pl, path) ==
    IF pl.use_cone_patterns THEN ConeIncluded(pl, path)
    ELSE GeneralIncluded(pl.patterns, path, FALSE)

(***************************************************************************)
(* The repository.                                                         *)
(***************************************************************************)
\* The files of HEAD (the repository of the test script, reduced).
HeadFiles ==
    { <<"/", "a">>,
      <<"/", "d", "/", "a">>,
      <<"/", "d", "/", "e", "/", "a">>,
      <<"/", "f", "/", "a">> }

\* The file the environment edits locally.
EditedFile == <<"/", "d", "/", "a">>

\* The argument lists `set` is run with.
SetArgs ==
    { << <<"d", "/", "e">> >>,
      << <<"d">>, <<"d", "/", "e", "/">> >>,
      << <<"n">> >>,
      << <<"/", "*">>, <<"!", "/", "*", "/">> >>,
      << <<"/", "*">>, <<"!", "/", "*", "/">>, <<"/", "d", "/">> >>,
      << <<"/", "*">>, <<"#", "n">> >> }

Procs == {"p1"}

VARIABLES
    patternFile,    \* info/sparse-checkout: [exists, lines]
    materialized,   \* the HEAD entries whose skip-worktree bit is clear
    modified,       \* the materialized files with local modifications
    hasHead,        \* HEAD resolves to a commit
    unmerged,       \* the index has unmerged entries
    config,         \* extensions.worktreeConfig, core.sparseCheckout, core.sparseCheckoutCone
    configBroken,   \* the config store refuses writes
    index_lock,     \* holder of index.lock: "none", "other" or a process
    sparse_lock,    \* holder of info/sparse-checkout.lock
    proc,           \* per invocation: position and local variables
    last,           \* the command that ended last, if nothing happened since
    cone            \* the serializer taken alone (specification SpecCone)

vars == <<patternFile, materialized, modified, hasHead, unmerged, config,
          configBroken, index_lock, sparse_lock, proc, last, cone>>

repoVars == <<patternFile, materialized, modified, hasHead, unmerged, config,
              configBroken, index_lock, sparse_lock, proc, last>>

Snapshot == [file |-> patternFile, index |-> materialized, config |-> config]

NoFile == [exists |-> FALSE, lines |-> <<>>]

Idle ==
    [pc |-> "idle", cmd |-> "none", cone_opt |-> FALSE, args |-> <<>>,
     core_apply_sparse_checkout |-> FALSE, core_sparse_checkout_cone |-> FALSE,
     pl |-> EmptyPl(FALSE), use_pl |-> FALSE, result |-> 0, set_config |-> FALSE,
     site |-> "none", mode |-> "none", exit |-> 0, config_failed |-> FALSE,
     pre |-> [file |-> NoFile, index |-> {}, config |-> [worktreeConfig |-> FALSE,
              sparseCheckout |-> FALSE, sparseCheckoutCone |-> FALSE]],
     prev |-> "none"]

ConeIdle == [step |-> "off", given |-> <<>>, input |-> <<>>, pl |-> EmptyPl(TRUE),
             file |-> <<>>, back |-> EmptyPl(TRUE), again |-> <<>>]

Init ==
    /\ patternFile = NoFile
    /\ materialized = {}
    /\ modified = {}
    /\ hasHead = FALSE
    /\ unmerged = FALSE
    /\ config = [worktreeConfig |-> FALSE, sparseCheckout |-> FALSE,
                 sparseCheckoutCone |-> FALSE]
    /\ configBroken = FALSE
    /\ index_lock = "none"
    /\ sparse_lock = "none"
    /\ proc = [p \in Procs |-> Idle]
    /\ last = "none"
    /\ cone = ConeIdle

AllIdle == \A p \in DOMAIN proc : proc[p].pc = "idle"

NoFault ==
    /\ modified = {}
    /\ ~unmerged
    /\ ~configBroken
    /\ index_lock = "none"
    /\ sparse_lock = "none"

(***************************************************************************)
(* unpack_trees as update_working_directory uses it (unpack-trees.c): the  *)
(* one-way merge of HEAD under the pattern list of the invocation, or      *)
(* under the pattern file when no list is passed; a missing pattern file   *)
(* turns the sparse filter off.                                            *)
(***************************************************************************)
SparseSkipped(l) == ~l.use_pl /\ ~patternFile.exists

UnpackList(l) ==
    IF l.use_pl THEN l.pl
    ELSE add_patterns_from_file_to_list(patternFile.lines, l.core_sparse_checkout_cone)

NewIndex(l) ==
    IF SparseSkipped(l) THEN HeadFiles
    ELSE {f \in HeadFiles : Included(UnpackList(l), f)}

\* the merge refusing to run when it would leave the index as it is
unpack_trees_refusing_no_change(l) ==
    IF \/ \E f \in modified \cap materialized : f \notin NewIndex(l)
       \/ NewIndex(l) = {}
       \/ NewIndex(l) = materialized
    THEN 1 ELSE 0

\* 0 on success; otherwise local changes would be lost, or no entry is left.
unpack_trees(l) ==
    IF \/ \E f \in modified \cap materialized : f \notin NewIndex(l)
       \/ NewIndex(l) = {}
    THEN 1 ELSE 0

(***************************************************************************)
(* Calls and returns.                                                      *)
(***************************************************************************)
Step(p, l) == proc' = [proc EXCEPT ![p] = l]

\* core.sparseCheckout written true for every mode
ModeSparseAlways(mode) == TRUE

\* lines 137-140: core.sparseCheckout is true for every mode but
\* MODE_NO_PATTERNS
ModeSparse(mode) == mode # "MODE_NO_PATTERNS"

\* sc_set_config(mode), called from site
CallConfig(l, mode, site) ==
    [l EXCEPT !.pc = "cfg_ext", !.mode = mode, !.site = site]

\* update_working_directory(pl) (use_pl) or update_working_directory(NULL)
CallUpdate(l, use_pl, site) ==
    [l EXCEPT !.pc = "uwd_enter", !.use_pl = use_pl, !.site = site]

Exit(l, code) == [l EXCEPT !.pc = "done", !.exit = code]

\* die(): exit status 128
Die(l) == Exit(l, 128)

\* the locks of a dying process are removed at exit
Released(lock, p) == IF lock = p THEN "none" ELSE lock

\* the statement after a call of sc_set_config that returned r
AfterConfig(l, r) ==
    CASE l.site = "init197" ->
            IF r # 0 THEN Exit(l, 1) ELSE [l EXCEPT !.pc = "init_file"]
      [] l.site = "set421" ->
            CallUpdate([l EXCEPT !.core_apply_sparse_checkout = TRUE,
                                 !.set_config = TRUE], TRUE, "wpau313")
      [] l.site = "set429" -> Exit(l, l.result)
      [] l.site = "disable440" ->
            IF r # 0 THEN Die(l) ELSE [l EXCEPT !.pc = "disable_file"]
      [] OTHER -> Exit(l, r)     \* disable455

\* the statement after a call of update_working_directory that returned r
AfterUpdate(l, r) ==
    CASE l.site = "init224" -> Exit(l, r)
      [] l.site = "wpau313" -> [l EXCEPT !.pc = "wpau_lock", !.result = r]
      [] l.site = "wpau319" ->
            [l EXCEPT !.pc = IF r # 0 THEN "wpau_rollback" ELSE "wpau_write",
                      !.result = r]
      [] l.site = "wpau324" -> [l EXCEPT !.pc = "set_428"]
      [] OTHER ->                \* disable449
            IF r # 0 THEN Die(l) ELSE [l EXCEPT !.pc = "disable_unlink"]

(***************************************************************************)
(* cmd_sparse_checkout: git_config loads the two flags, then dispatch.     *)
(***************************************************************************)
\* The locals of an invocation that has not read the config.
LoadedWithoutConfig(p, cmd) ==
    [Idle EXCEPT !.pc = cmd, !.cmd = cmd, !.pre = Snapshot, !.prev = last]

Loaded(p, cmd) ==
    [Idle EXCEPT !.pc = cmd, !.cmd = cmd,
                 !.core_apply_sparse_checkout = config.sparseCheckout,
                 !.core_sparse_checkout_cone = config.sparseCheckoutCone,
                 !.pre = Snapshot, !.prev = last]

cmd_sparse_checkout(p) ==
    /\ proc[p].pc = "idle"
    /\ \/ Step(p, Loaded(p, "list"))
       \/ \E c \in BOOLEAN : Step(p, [Loaded(p, "init") EXCEPT !.cone_opt = c])
       \/ \E a \in SetArgs : Step(p, [Loaded(p, "set") EXCEPT !.args = a])
       \/ Step(p, Loaded(p, "disable"))
    /\ last' = "none"
    /\ UNCHANGED <<patternFile, materialized, modified, hasHead, unmerged, config,
                   configBroken, index_lock, sparse_lock, cone>>

\* the commands whose repetition is of interest
CmdKind(l) ==
    IF l.cmd = "init" THEN (IF l.cone_opt THEN "init_cone" ELSE "init")
    ELSE IF l.cmd = "disable" THEN "disable"
    ELSE "none"

\* the process has exited
Exited(p) ==
    /\ proc[p].pc = "done"
    /\ Step(p, Idle)
    /\ last' = CmdKind(proc[p])
    /\ UNCHANGED <<patternFile, materialized, modified, hasHead, unmerged, config,
                   configBroken, index_lock, sparse_lock, cone>>

(***************************************************************************)
(* sparse_checkout_list                                                    *)
(***************************************************************************)
\* what list prints when the pattern file exists
ListOutput(lines) == write_patterns_to_file(add_patterns_from_file_to_list(lines, FALSE))

\* the status of list taken from the result of reading the file
ListReturnOfRead(file) == IF file.exists THEN 0 ELSE 1

\* lines 57-65: list returns 0 when the file cannot be read (after the
\* warning) and when it has printed the patterns
ListReturn(file) == 0

sparse_checkout_list(p) ==
    /\ proc[p].pc = "list"
    /\ Step(p, Exit(proc[p], ListReturn(patternFile)))
    /\ UNCHANGED <<patternFile, materialized, modified, hasHead, unmerged, config,
                   configBroken, index_lock, sparse_lock, last, cone>>

(***************************************************************************)
(* sc_set_config: three separate writes to the config store.               *)
(***************************************************************************)
sc_set_config_extension(p) ==
    LET l == proc[p] IN
    /\ l.pc = "cfg_ext"
    /\ IF configBroken
       THEN /\ Step(p, AfterConfig([l EXCEPT !.config_failed = TRUE], 1))
            /\ UNCHANGED config
       ELSE /\ config' = [config EXCEPT !.worktreeConfig = TRUE]
            /\ Step(p, [l EXCEPT !.pc = "cfg_sparse"])
    /\ UNCHANGED <<patternFile, materialized, modified, hasHead, unmerged,
                   configBroken, index_lock, sparse_lock, last, cone>>

sc_set_config_sparse(p) ==
    LET l == proc[p] IN
    /\ l.pc = "cfg_sparse"
    /\ IF configBroken
       THEN /\ Step(p, AfterConfig([l EXCEPT !.config_failed = TRUE], 1))
            /\ UNCHANGED config
       ELSE /\ config' = [config EXCEPT !.sparseCheckout = ModeSparse(l.mode)]
            /\ Step(p, [l EXCEPT !.pc = "cfg_cone"])
    /\ UNCHANGED <<patternFile, materialized, modified, hasHead, unmerged,
                   configBroken, index_lock, sparse_lock, last, cone>>

sc_set_config_cone(p) ==
    LET l == proc[p] IN
    /\ l.pc = "cfg_cone"
    /\ IF configBroken
       THEN /\ Step(p, AfterConfig([l EXCEPT !.config_failed = TRUE], 1))
            /\ UNCHANGED config
       ELSE /\ config' = [config EXCEPT
                            !.sparseCheckoutCone = (l.mode = "MODE_CONE_PATTERNS")]
            /\ Step(p, AfterConfig(l, 0))
    /\ UNCHANGED <<patternFile, materialized, modified, hasHead, unmerged,
                   configBroken, index_lock, sparse_lock, last, cone>>

(***************************************************************************)
(* update_working_directory                                                *)
(***************************************************************************)
\* HEAD taken to resolve in every repository
HeadResolvedAlways(head) == TRUE

\* lines 80 and 217: get_oid("HEAD", &oid) succeeds when HEAD names a commit
HeadResolved(head) == head

\* lines 78-105: the checks and the acquisition of index.lock
update_working_directory_enter(p) ==
    LET l == proc[p] IN
    /\ l.pc = "uwd_enter"
    /\ IF unmerged
       THEN /\ Step(p, Die(l))
            /\ sparse_lock' = Released(sparse_lock, p)
            /\ UNCHANGED index_lock
       ELSE IF ~HeadResolved(hasHead)
       THEN /\ Step(p, AfterUpdate(l, 0))
            /\ UNCHANGED <<index_lock, sparse_lock>>
       ELSE IF index_lock # "none"
       THEN /\ Step(p, Die(l))
            /\ sparse_lock' = Released(sparse_lock, p)
            /\ UNCHANGED index_lock
       ELSE /\ index_lock' = p
            /\ Step(p, [l EXCEPT !.pc = "uwd_unpack"])
            /\ UNCHANGED sparse_lock
    /\ UNCHANGED <<patternFile, materialized, modified, hasHead, unmerged, config,
                   configBroken, last, cone>>

\* index.lock rolled back only after a successful merge
IndexLockKeptOnFailure(p, result) == IF result = 0 THEN "none" ELSE p

\* index.lock written but not committed after a successful merge
IndexLockKeptOnSuccess(p, result) == IF result = 0 THEN p ELSE "none"

\* lines 110-114: index.lock is committed when the merge succeeded and rolled
\* back when it failed; either way the lock file is gone
IndexLockAfterUnpack(p, result) == "none"

\* the merged index written whatever the merge returned
IndexWrittenAlways(l, result) == NewIndex(l)

\* lines 108-114: the merged index is written (and the working tree follows
\* it) only when unpack_trees returned 0
IndexAfterUnpack(l, result) ==
    IF result = 0 THEN NewIndex(l) ELSE materialized

\* lines 107-116: the merge, then commit or rollback of index.lock
update_working_directory_unpack(p) ==
    LET l == [proc[p] EXCEPT !.core_apply_sparse_checkout = TRUE]
        result == unpack_trees(l)
    IN
    /\ l.pc = "uwd_unpack"
    /\ materialized' = IndexAfterUnpack(l, result)
    /\ index_lock' = IndexLockAfterUnpack(p, result)
    /\ Step(p, AfterUpdate(l, result))
    /\ UNCHANGED <<patternFile, modified, hasHead, unmerged, config,
                   configBroken, sparse_lock, last, cone>>

(***************************************************************************)
(* sparse_checkout_init                                                    *)
(***************************************************************************)
SeedLines == ConeHeader

\* lines 191-197
sparse_checkout_init(p) ==
    LET l == proc[p] IN
    /\ l.pc = "init"
    /\ Step(p, CallConfig(
                 [l EXCEPT !.core_sparse_checkout_cone = l.cone_opt \/ @],
                 IF l.cone_opt THEN "MODE_CONE_PATTERNS" ELSE "MODE_ALL_PATTERNS",
                 "init197"))
    /\ UNCHANGED <<patternFile, materialized, modified, hasHead, unmerged, config,
                   configBroken, index_lock, sparse_lock, last, cone>>

\* the seed written over whatever the pattern file holds
InitFileReseeded(file) == [exists |-> TRUE, lines |-> SeedLines]

\* the seed appended to whatever the pattern file holds
InitFileAppended(file) == [exists |-> TRUE, lines |-> file.lines \o SeedLines]

\* lines 203-215: an existing pattern file is used as it is, a missing one is
\* created with the seed
InitFile(file) ==
    IF file.exists THEN file ELSE [exists |-> TRUE, lines |-> SeedLines]

\* lines 200-224
sparse_checkout_init_file(p) ==
    LET l == proc[p] IN
    /\ l.pc = "init_file"
    /\ patternFile' = InitFile(patternFile)
    /\ IF ~patternFile.exists /\ ~HeadResolved(hasHead)
       THEN Step(p, Exit(l, 0))
       ELSE Step(p, CallUpdate([l EXCEPT !.core_apply_sparse_checkout = TRUE],
                               FALSE, "init224"))
    /\ UNCHANGED <<materialized, modified, hasHead, unmerged, config,
                   configBroken, index_lock, sparse_lock, last, cone>>

(***************************************************************************)
(* sparse_checkout_set and write_patterns_and_update                       *)
(***************************************************************************)
RECURSIVE ConeList(_, _)
ConeList(args, pl) ==
    IF args = <<>> THEN pl
    ELSE ConeList(Tail(args), strbuf_to_cone_pattern(Head(args), pl))

RECURSIVE GeneralList(_, _)
GeneralList(args, pl) ==
    IF args = <<>> THEN pl
    ELSE GeneralList(Tail(args), add_pattern(Head(args), pl))

\* lines 389-418: the pattern list of the arguments
SetList(args, cone_mode) ==
    IF cone_mode THEN ConeList(args, EmptyPl(TRUE))
    ELSE GeneralList(args, EmptyPl(FALSE))

\* lines 389-424
sparse_checkout_set(p) ==
    LET l == [proc[p] EXCEPT
                !.pl = SetList(proc[p].args, proc[p].core_sparse_checkout_cone)]
    IN
    /\ l.pc = "set"
    /\ IF ~l.core_apply_sparse_checkout
       THEN Step(p, CallConfig(l, "MODE_ALL_PATTERNS", "set421"))
       ELSE Step(p, CallUpdate(l, TRUE, "wpau313"))
    /\ UNCHANGED <<patternFile, materialized, modified, hasHead, unmerged, config,
                   configBroken, index_lock, sparse_lock, last, cone>>

\* a lock file that is taken over from its holder
LockIgnored(lock) == FALSE

\* lines 315-317: hold_lock_file_for_update creates the lock file
\* exclusively; with LOCK_DIE_ON_ERROR an existing lock file is fatal
LockExists(lock) == lock # "none"

\* lines 315-319: take info/sparse-checkout.lock or die
write_patterns_and_update_lock(p) ==
    LET l == proc[p] IN
    /\ l.pc = "wpau_lock"
    /\ IF LockExists(sparse_lock)
       THEN Step(p, Die(l)) /\ UNCHANGED sparse_lock
       ELSE sparse_lock' = p /\ Step(p, CallUpdate(l, TRUE, "wpau319"))
    /\ UNCHANGED <<patternFile, materialized, modified, hasHead, unmerged, config,
                   configBroken, index_lock, last, cone>>

\* lines 320-324: the failure branch
write_patterns_and_update_rollback(p) ==
    LET l == proc[p] IN
    /\ l.pc = "wpau_rollback"
    /\ sparse_lock' = "none"
    /\ Step(p, CallUpdate([l EXCEPT !.pl = EmptyPl(FALSE)], FALSE, "wpau324"))
    /\ UNCHANGED <<patternFile, materialized, modified, hasHead, unmerged, config,
                   configBroken, index_lock, last, cone>>

\* lines 330-333: the writer is chosen by core_sparse_checkout_cone
NewFileLines(cone_mode, pl) ==
    IF cone_mode THEN write_cone_to_file(pl) ELSE write_patterns_to_file(pl)

\* lines 328-341: write through the lock and commit it
write_patterns_and_update_write(p) ==
    LET l == proc[p] IN
    /\ l.pc = "wpau_write"
    /\ patternFile' = [exists |-> TRUE,
                       lines |-> NewFileLines(l.core_sparse_checkout_cone, l.pl)]
    /\ sparse_lock' = "none"
    /\ Step(p, [l EXCEPT !.pc = "set_428", !.pl = EmptyPl(FALSE), !.result = 0])
    /\ UNCHANGED <<materialized, modified, hasHead, unmerged, config,
                   configBroken, index_lock, last, cone>>

\* lines 428-432
sparse_checkout_set_end(p) ==
    LET l == proc[p] IN
    /\ l.pc = "set_428"
    /\ IF l.result # 0 /\ l.set_config
       THEN Step(p, CallConfig(l, "MODE_NO_PATTERNS", "set429"))
       ELSE Step(p, Exit(l, l.result))
    /\ UNCHANGED <<patternFile, materialized, modified, hasHead, unmerged, config,
                   configBroken, index_lock, sparse_lock, last, cone>>

(***************************************************************************)
(* sparse_checkout_disable                                                 *)
(***************************************************************************)
\* line 440
sparse_checkout_disable(p) ==
    LET l == proc[p] IN
    /\ l.pc = "disable"
    /\ Step(p, CallConfig(l, "MODE_ALL_PATTERNS", "disable440"))
    /\ UNCHANGED <<patternFile, materialized, modified, hasHead, unmerged, config,
                   configBroken, index_lock, sparse_lock, last, cone>>

\* the seed of init in place of the match-everything pattern
DisableLinesSeed == SeedLines

\* line 445: fprintf(fp, "/*\n")
DisableLines == << <<"/", "*">> >>

\* lines 443-449
sparse_checkout_disable_file(p) ==
    LET l == proc[p] IN
    /\ l.pc = "disable_file"
    /\ patternFile' = [exists |-> TRUE, lines |-> DisableLines]
    /\ Step(p, CallUpdate([l EXCEPT !.core_apply_sparse_checkout = TRUE],
                          FALSE, "disable449"))
    /\ UNCHANGED <<materialized, modified, hasHead, unmerged, config,
                   configBroken, index_lock, sparse_lock, last, cone>>

\* the pattern file left in place
UnlinkSkipped(file) == file

\* line 452: unlink(sparse_filename)
Unlinked(file) == NoFile

\* lines 452-455
sparse_checkout_disable_unlink(p) ==
    LET l == proc[p] IN
    /\ l.pc = "disable_unlink"
    /\ patternFile' = Unlinked(patternFile)
    /\ Step(p, CallConfig(l, "MODE_NO_PATTERNS", "disable455"))
    /\ UNCHANGED <<materialized, modified, hasHead, unmerged, config,
                   configBroken, index_lock, sparse_lock, last, cone>>

(***************************************************************************)
(* The environment: the first commit, a local edit, a conflicted index, a  *)
(* lock file left by another process, a config store that refuses writes.  *)
(* One of these is in effect at a time.                                    *)
(***************************************************************************)
EnvCommit ==
    /\ AllIdle /\ ~hasHead
    /\ hasHead' = TRUE
    /\ materialized' = HeadFiles
    /\ last' = "none"
    /\ UNCHANGED <<patternFile, modified, unmerged, config, configBroken,
                   index_lock, sparse_lock, proc, cone>>

EnvEdit ==
    /\ AllIdle
    /\ \/ NoFault /\ EditedFile \in materialized /\ modified' = {EditedFile}
       \/ modified # {} /\ modified' = {}
    /\ last' = "none"
    /\ UNCHANGED <<patternFile, materialized, hasHead, unmerged, config, configBroken,
                   index_lock, sparse_lock, proc, cone>>

EnvConflict ==
    /\ AllIdle
    /\ \/ NoFault /\ hasHead /\ unmerged' = TRUE
       \/ unmerged /\ unmerged' = FALSE
    /\ last' = "none"
    /\ UNCHANGED <<patternFile, materialized, modified, hasHead, config, configBroken,
                   index_lock, sparse_lock, proc, cone>>

EnvIndexLock ==
    /\ AllIdle
    /\ \/ NoFault /\ index_lock' = "other"
       \/ index_lock = "other" /\ index_lock' = "none"
    /\ last' = "none"
    /\ UNCHANGED <<patternFile, materialized, modified, hasHead, unmerged, config,
                   configBroken, sparse_lock, proc, cone>>

EnvSparseLock ==
    /\ AllIdle
    /\ \/ NoFault /\ sparse_lock' = "other"
       \/ sparse_lock = "other" /\ sparse_lock' = "none"
    /\ last' = "none"
    /\ UNCHANGED <<patternFile, materialized, modified, hasHead, unmerged, config,
                   configBroken, index_lock, proc, cone>>

\* The config store may start or stop refusing writes while a command runs,
\* between two of its writes.
EnvConfig ==
    /\ \A p \in DOMAIN proc : proc[p].pc # "done"
    /\ \/ NoFault /\ configBroken' = TRUE
       \/ configBroken /\ configBroken' = FALSE
    /\ last' = "none"
    /\ proc' = [p \in DOMAIN proc |-> [proc[p] EXCEPT !.prev = "none"]]
    /\ UNCHANGED <<patternFile, materialized, modified, hasHead, unmerged, config,
                   index_lock, sparse_lock, cone>>

Env == EnvCommit \/ EnvEdit \/ EnvConflict \/ EnvIndexLock \/ EnvSparseLock \/ EnvConfig

Next ==
    \/ Env
    \/ \E p \in DOMAIN proc : cmd_sparse_checkout(p)
    \/ \E p \in DOMAIN proc : Exited(p)
    \/ \E p \in DOMAIN proc : sparse_checkout_list(p)
    \/ \E p \in DOMAIN proc : sc_set_config_extension(p)
    \/ \E p \in DOMAIN proc : sc_set_config_sparse(p)
    \/ \E p \in DOMAIN proc : sc_set_config_cone(p)
    \/ \E p \in DOMAIN proc : update_working_directory_enter(p)
    \/ \E p \in DOMAIN proc : update_working_directory_unpack(p)
    \/ \E p \in DOMAIN proc : sparse_checkout_init(p)
    \/ \E p \in DOMAIN proc : sparse_checkout_init_file(p)
    \/ \E p \in DOMAIN proc : sparse_checkout_set(p)
    \/ \E p \in DOMAIN proc : write_patterns_and_update_lock(p)
    \/ \E p \in DOMAIN proc : write_patterns_and_update_rollback(p)
    \/ \E p \in DOMAIN proc : write_patterns_and_update_write(p)
    \/ \E p \in DOMAIN proc : sparse_checkout_set_end(p)
    \/ \E p \in DOMAIN proc : sparse_checkout_disable(p)
    \/ \E p \in DOMAIN proc : sparse_checkout_disable_file(p)
    \/ \E p \in DOMAIN proc : sparse_checkout_disable_unlink(p)


Spec == Init /\ [][Next]_vars

(***************************************************************************)
(* The cone serializer taken alone: the directories given to `set` are     *)
(* inserted one at a time, the list is written, the file is read back in   *)
(* cone mode and written again.                                            *)
(***************************************************************************)
ConeInputs ==
    { <<"d">>,
      <<"d", "/", "e">>,
      <<"/", "d", "/", "e", "/">>,
      <<" ", "d", "/", "e", " ">>,
      <<"d", "/", "e", "/", "g">>,
      <<"d", "/", "f">>,
      <<"a">>,
      <<"d", "/", "*">>,
      <<"d", "/", "/", "e">>,
      <<"/">>,
      <<"/", "/">>,
      <<"/", "/", "d">>,
      <<" ">>,
      <<>> }

ConeInputLists ==
    UNION { [1..n -> ConeInputs] : n \in 0..MaxArgs }

InitCone ==
    /\ patternFile = NoFile
    /\ materialized = {}
    /\ modified = {}
    /\ hasHead = FALSE
    /\ unmerged = FALSE
    /\ config = [worktreeConfig |-> TRUE, sparseCheckout |-> TRUE,
                 sparseCheckoutCone |-> TRUE]
    /\ configBroken = FALSE
    /\ index_lock = "none"
    /\ sparse_lock = "none"
    /\ proc = [p \in Procs |-> Idle]
    /\ last = "none"
    /\ \E input \in ConeInputLists :
          cone = [ConeIdle EXCEPT !.step = "insert", !.given = input, !.input = input]

\* lines 399-403: one strbuf_to_cone_pattern per argument
ConeInsert ==
    /\ cone.step = "insert"
    /\ cone.input # <<>>
    /\ cone' = [cone EXCEPT !.pl = strbuf_to_cone_pattern(Head(cone.input), @),
                            !.input = Tail(@)]
    /\ UNCHANGED repoVars

\* line 331
ConeWrite ==
    /\ cone.step = "insert"
    /\ cone.input = <<>>
    /\ cone' = [cone EXCEPT !.step = "written", !.file = write_cone_to_file(cone.pl)]
    /\ UNCHANGED repoVars

\* the file read back in cone mode
ConeRead ==
    /\ cone.step = "written"
    /\ cone' = [cone EXCEPT !.step = "read",
                            !.back = add_patterns_from_file_to_list(cone.file, TRUE)]
    /\ UNCHANGED repoVars

\* and written again
ConeWriteAgain ==
    /\ cone.step = "read"
    /\ cone' = [cone EXCEPT !.step = "rewritten", !.again = write_cone_to_file(cone.back)]
    /\ UNCHANGED repoVars

NextCone == ConeInsert \/ ConeWrite \/ ConeRead \/ ConeWriteAgain

SpecCone == InitCone /\ [][NextCone]_vars

(***************************************************************************)
(* The canonicalization taken alone (specification SpecCanon): two input   *)
(* lines are canonicalized by strbuf_to_cone_pattern, each into a list of  *)
(* its own, and the keys obtained are canonicalized once more.             *)
(***************************************************************************)
CanonInputs ==
    { <<"d">>,
      <<"/", "d">>,
      <<"d", "/">>,
      <<"d", "/", "/">>,
      <<" ", "d", " ">>,
      <<"d", " ">>,
      <<"d", " ", "/">>,
      <<" ", "d">>,
      <<"/", " ", "d">>,
      <<"d", "/", "e">>,
      <<"/", "d", "/", "e", "/">>,
      <<" ", "d", "/", "e", " ">>,
      <<"/">>,
      <<" ">>,
      <<>> }

\* the recursive keys one input line gives: one key, or none when the line
\* is discarded
KeysOfLine(line) == strbuf_to_cone_pattern(line, EmptyPl(TRUE)).recursive_hashmap

InitCanon ==
    /\ patternFile = NoFile
    /\ materialized = {}
    /\ modified = {}
    /\ hasHead = FALSE
    /\ unmerged = FALSE
    /\ config = [worktreeConfig |-> TRUE, sparseCheckout |-> TRUE,
                 sparseCheckoutCone |-> TRUE]
    /\ configBroken = FALSE
    /\ index_lock = "none"
    /\ sparse_lock = "none"
    /\ proc = [p \in Procs |-> Idle]
    /\ last = "none"
    /\ \E x, y \in CanonInputs :
          cone = [step |-> "canon", given |-> <<x, y>>, keys |-> <<>>, again |-> <<>>]

\* lines 344-357, once per line
CanonApply ==
    /\ cone.step = "canon"
    /\ Len(cone.keys) < Len(cone.given)
    /\ cone' = [cone EXCEPT
                  !.keys = Append(@, KeysOfLine(cone.given[Len(cone.keys) + 1]))]
    /\ UNCHANGED repoVars

\* lines 344-357 applied to the keys
CanonAgain ==
    /\ cone.step = "canon"
    /\ Len(cone.keys) = Len(cone.given)
    /\ cone' = [cone EXCEPT
                  !.step = "again",
                  !.again = [i \in 1..Len(cone.keys) |->
                                UNION {KeysOfLine(k) : k \in cone.keys[i]}]]
    /\ UNCHANGED repoVars

NextCanon == CanonApply \/ CanonAgain

SpecCanon == InitCanon /\ [][NextCanon]_vars

(***************************************************************************)
(* Two invocations of `set` at once (specification SpecTwo): a sparse      *)
(* repository in the general dialect with every entry of HEAD checked out, *)
(* and two processes that each run set once, with different patterns,      *)
(* their steps interleaved in every order.                                 *)
(***************************************************************************)
TwoProcs == {"p1", "p2"}

InitTwo ==
    /\ patternFile = [exists |-> TRUE, lines |-> << <<"/", "*">> >>]
    /\ materialized = HeadFiles
    /\ modified = {}
    /\ hasHead = TRUE
    /\ unmerged = FALSE
    /\ config = [worktreeConfig |-> TRUE, sparseCheckout |-> TRUE,
                 sparseCheckoutCone |-> FALSE]
    /\ configBroken = FALSE
    /\ index_lock = "none"
    /\ sparse_lock = "none"
    /\ proc = [p \in TwoProcs |-> Idle]
    /\ last = "none"
    /\ cone = ConeIdle

\* lines 458-488: git sparse-checkout set <patterns>, with patterns other
\* than those of the other invocation
StartSet(p) ==
    /\ proc[p].pc = "idle"
    /\ \E a \in SetArgs :
          /\ \A q \in DOMAIN proc \ {p} : proc[q].args # a
          /\ Step(p, [Loaded(p, "set") EXCEPT !.args = a])
    /\ last' = "none"
    /\ UNCHANGED <<patternFile, materialized, modified, hasHead, unmerged, config,
                   configBroken, index_lock, sparse_lock, cone>>

NextTwo ==
    \/ \E p \in DOMAIN proc : StartSet(p)
    \/ \E p \in DOMAIN proc : sparse_checkout_set(p)
    \/ \E p \in DOMAIN proc : update_working_directory_enter(p)
    \/ \E p \in DOMAIN proc : update_working_directory_unpack(p)
    \/ \E p \in DOMAIN proc : write_patterns_and_update_lock(p)
    \/ \E p \in DOMAIN proc : write_patterns_and_update_rollback(p)
    \/ \E p \in DOMAIN proc : write_patterns_and_update_write(p)
    \/ \E p \in DOMAIN proc : sparse_checkout_set_end(p)

SpecTwo == InitTwo /\ [][NextTwo]_vars

(***************************************************************************)
(* `set` from every combination of the two flags (specification SpecSet):  *)
(* a repository with a HEAD and every entry checked out, in which          *)
(* core.sparseCheckout and core.sparseCheckoutCone have been given any     *)
(* values with git config, and one invocation of set.                      *)
(***************************************************************************)
InitSet ==
    /\ \E sparse, cone_flag \in BOOLEAN :
          /\ config = [worktreeConfig |-> TRUE, sparseCheckout |-> sparse,
                       sparseCheckoutCone |-> cone_flag]
          /\ patternFile = IF sparse
                           THEN [exists |-> TRUE, lines |-> << <<"/", "*">> >>]
                           ELSE NoFile
    /\ materialized = HeadFiles
    /\ modified = {}
    /\ hasHead = TRUE
    /\ unmerged = FALSE
    /\ configBroken = FALSE
    /\ index_lock = "none"
    /\ sparse_lock = "none"
    /\ proc = [p \in Procs |-> Idle]
    /\ last = "none"
    /\ cone = ConeIdle

NextSet ==
    \/ \E p \in DOMAIN proc : StartSet(p)
    \/ \E p \in DOMAIN proc : sparse_checkout_set(p)
    \/ \E p \in DOMAIN proc : sc_set_config_extension(p)
    \/ \E p \in DOMAIN proc : sc_set_config_sparse(p)
    \/ \E p \in DOMAIN proc : sc_set_config_cone(p)
    \/ \E p \in DOMAIN proc : update_working_directory_enter(p)
    \/ \E p \in DOMAIN proc : update_working_directory_unpack(p)
    \/ \E p \in DOMAIN proc : write_patterns_and_update_lock(p)
    \/ \E p \in DOMAIN proc : write_patterns_and_update_rollback(p)
    \/ \E p \in DOMAIN proc : write_patterns_and_update_write(p)
    \/ \E p \in DOMAIN proc : sparse_checkout_set_end(p)

SpecSet == InitSet /\ [][NextSet]_vars

(***************************************************************************)
(* The while loop of insert_recursive_pattern taken alone (specification   *)
(* SpecLoop): one turn of the loop per step, for every canonical key of up *)
(* to MaxDepth components and a parent set that is empty or holds /d.      *)
(***************************************************************************)
MaxDepth == 3

Components == { <<"d">>, <<"e">>, <<"g">> }

\* the canonical keys of n components
RECURSIVE KeysOfDepth(_)
KeysOfDepth(n) ==
    IF n = 0 THEN { <<>> }
    ELSE {k \o <<"/">> \o c : k \in KeysOfDepth(n - 1), c \in Components}

LoopKeys == UNION {KeysOfDepth(n) : n \in 1..MaxDepth}

\* the key cut after its last slash
CutAfterLastSlash(e) == Prefix(e, LastSlash(e))

\* lines 244-247: newlen = slash - e->pattern; xstrndup(oldpattern, newlen)
CutAtLastSlash(e) == Prefix(e, LastSlash(e) - 1)

InitLoop ==
    /\ patternFile = NoFile
    /\ materialized = {}
    /\ modified = {}
    /\ hasHead = FALSE
    /\ unmerged = FALSE
    /\ config = [worktreeConfig |-> TRUE, sparseCheckout |-> TRUE,
                 sparseCheckoutCone |-> TRUE]
    /\ configBroken = FALSE
    /\ index_lock = "none"
    /\ sparse_lock = "none"
    /\ proc = [p \in Procs |-> Idle]
    /\ last = "none"
    /\ \E k \in LoopKeys, parents \in { {}, { <<"/", "d">> } } :
          cone = [step |-> "loop", key |-> k, e |-> k, given |-> parents,
                  parent_hashmap |-> parents, added |-> 0]

\* lines 236-251: one turn of the loop
LoopTurn ==
    /\ cone.step = "loop"
    /\ Len(cone.e) # 0
    /\ LastSlash(cone.e) # 1
    /\ LET next == CutAtLastSlash(cone.e)
       IN  cone' = [cone EXCEPT
                      !.e = next,
                      !.parent_hashmap = @ \cup {next},
                      !.added = IF next \in cone.parent_hashmap THEN @ ELSE @ + 1]
    /\ UNCHANGED repoVars

\* lines 236 and 240-241: the loop is left
LoopExit ==
    /\ cone.step = "loop"
    /\ Len(cone.e) = 0 \/ LastSlash(cone.e) = 1
    /\ cone' = [cone EXCEPT !.step = "stopped"]
    /\ UNCHANGED repoVars

NextLoop == LoopTurn \/ LoopExit

\* the process runs: a turn of the loop that can be taken is taken
SpecLoop == InitLoop /\ [][NextLoop]_vars /\ WF_vars(NextLoop)

(***************************************************************************)
(* Properties.                                                             *)
(***************************************************************************)
Ended(p, cmd) == proc[p].pc = "done" /\ proc[p].cmd = cmd

Failed(p) == proc[p].exit # 0

FlagsOf(c) == <<c.sparseCheckout, c.sparseCheckoutCone>>

\* p took a step
Acted(p) == proc'[p] # proc[p]

\* C1: after a failed set, the pattern file, the index and the two config
\* flags have the values they had before the call.
C1_FailedSetRestoresAll ==
    \A p \in DOMAIN proc :
        Ended(p, "set") /\ Failed(p) =>
            /\ patternFile = proc[p].pre.file
            /\ materialized = proc[p].pre.index
            /\ FlagsOf(config) = FlagsOf(proc[p].pre.config)

\* C2: when a command has returned, whether it succeeded or failed, it holds
\* neither index.lock nor sparse-checkout.lock: every lock it acquired has
\* been committed or rolled back.
C2_NoLockAfterReturn ==
    \A p \in DOMAIN proc :
        proc[p].pc = "done" => index_lock # p /\ sparse_lock # p

\* a set has returned after its reconcile failed under both locks
C2_Witness ==
    \E p \in DOMAIN proc :
        /\ Ended(p, "set") /\ proc[p].exit = 1
        /\ index_lock = "none" /\ sparse_lock = "none"

\* C3 as stated: the index lock is taken first and the pattern-file lock
\* second, so no invocation acquires index.lock while it holds
\* sparse-checkout.lock, and the pattern-file lock is released first.
C3_IndexLockBeforeSparseLock ==
    [][\A p \in DOMAIN proc :
        /\ ~(sparse_lock = p /\ index_lock # p /\ index_lock' = p)
        /\ ~(sparse_lock = p /\ index_lock = p /\ index_lock' # p)]_vars

\* C3 as the code has it: the pattern-file lock is the outer lock.  No
\* invocation acquires sparse-checkout.lock while it holds index.lock, and
\* it never releases sparse-checkout.lock while it still holds index.lock
\* (the locks are released in the reverse order of their acquisition).
C3_SparseLockBeforeIndexLock ==
    [][\A p \in DOMAIN proc :
        /\ ~(index_lock = p /\ sparse_lock # p /\ sparse_lock' = p)
        /\ ~(index_lock = p /\ sparse_lock = p /\ sparse_lock' # p)]_vars

\* an invocation holds both locks
C3_Witness ==
    \E p \in DOMAIN proc : index_lock = p /\ sparse_lock = p

\* C4: every step of an invocation that creates, overwrites or removes the
\* pattern file is taken while that invocation holds sparse-checkout.lock.
C4_PatternFileWrittenUnderLock ==
    [][\A p \in DOMAIN proc :
        Acted(p) /\ patternFile' # patternFile => sparse_lock = p]_vars

\* The layout of a cone file, stated on the keys: a key is covered when a
\* recursive key is a strict ancestor of it.
Covered(pl, k) == \E r \in pl.recursive_hashmap : IsAncestor(r, k)

LayoutParents(pl) ==
    {k \in pl.parent_hashmap : k \notin pl.recursive_hashmap /\ ~Covered(pl, k)}

LayoutRecursives(pl) ==
    {k \in pl.recursive_hashmap : ~Covered(pl, k)}

\* the key of a line "<key>/"
KeyOf(line) == Prefix(line, Len(line) - 1)

\* out is: the two header lines; then one pair "p/", "!p/*/" for every key
\* of LayoutParents, in strcmp order of the keys; then one line "r/" for
\* every key of LayoutRecursives, in strcmp order; and nothing else.
IsCanonicalLayout(out, pl) ==
    LET np == Cardinality(LayoutParents(pl))
        nr == Cardinality(LayoutRecursives(pl))
        pairAt(i) == 2 * i + 1
        recAt(j) == 2 + 2 * np + j
    IN  /\ Len(out) = 2 + 2 * np + nr
        /\ out[1] = <<"/", "*">>
        /\ out[2] = <<"!", "/", "*", "/">>
        /\ \A i \in 1..np :
              \E k \in LayoutParents(pl) :
                 /\ out[pairAt(i)] = k \o <<"/">>
                 /\ out[pairAt(i) + 1] = <<"!">> \o k \o <<"/", "*", "/">>
        /\ \A i \in 1..(np - 1) :
              StrLess(KeyOf(out[pairAt(i)]), KeyOf(out[pairAt(i + 1)]))
        /\ \A j \in 1..nr :
              \E k \in LayoutRecursives(pl) : out[recAt(j)] = k \o <<"/">>
        /\ \A j \in 1..(nr - 1) :
              StrLess(KeyOf(out[recAt(j)]), KeyOf(out[recAt(j + 1)]))

\* the pattern list `set` builds in cone mode from its arguments
ConeListOf(args) == ConeList(args, EmptyPl(TRUE))

\* The file a successful set leaves: the canonical cone layout of the
\* arguments in cone mode, the arguments verbatim and in order otherwise.
IsSerialization(lines, args, cone_mode) ==
    IF cone_mode THEN IsCanonicalLayout(lines, ConeListOf(args))
    ELSE lines = args

\* a pattern the reader of the pattern file drops or alters: an empty one,
\* a comment, one that ends in white space
Unreadable(arg) ==
    arg = <<>> \/ arg[1] = "#" \/ IsSpace(arg[Len(arg)])

\* C5 as stated: after set succeeds the pattern file holds exactly the
\* serialization of the given patterns, and reading the file back as list
\* does returns that serialization.
C5_SetWritesSerializationReadBack ==
    \A p \in DOMAIN proc :
        Ended(p, "set") /\ ~Failed(p) =>
            /\ patternFile.exists
            /\ IsSerialization(patternFile.lines, proc[p].args,
                               proc[p].core_sparse_checkout_cone)
            /\ IsSerialization(ListOutput(patternFile.lines), proc[p].args,
                               proc[p].core_sparse_checkout_cone)

\* C5 amended: after set succeeds the pattern file holds exactly the
\* serialization of the given patterns and nothing else; list returns that
\* serialization unless, in the general dialect, a given pattern is empty,
\* starts with "#" or ends in white space.
C5_SetWritesSerialization ==
    \A p \in DOMAIN proc :
        Ended(p, "set") /\ ~Failed(p) =>
            /\ patternFile.exists
            /\ IsSerialization(patternFile.lines, proc[p].args,
                               proc[p].core_sparse_checkout_cone)
            /\ (\/ proc[p].core_sparse_checkout_cone
                \/ \A i \in 1..Len(proc[p].args) : ~Unreadable(proc[p].args[i]))
               => ListOutput(patternFile.lines) = patternFile.lines

\* a set in the general dialect has replaced a different, longer pattern file
\* by patterns that carry the negative and the directory marker
C5_Witness ==
    \E p \in DOMAIN proc :
        /\ Ended(p, "set") /\ ~Failed(p)
        /\ ~proc[p].core_sparse_checkout_cone
        /\ proc[p].pre.file.exists
        /\ Len(proc[p].pre.file.lines) > Len(proc[p].args)
        /\ \E i \in 1..Len(proc[p].args) : proc[p].args[i] = <<"!", "/", "*", "/">>

\* the index of a repository whose every HEAD entry is materialized
FullIndex == IF hasHead THEN HeadFiles ELSE {}

\* C6: init is idempotent: an init that runs right after an init with the
\* same --cone value leaves the pattern file, the index and the config as it
\* found them.
C6_InitIdempotent ==
    \A p \in DOMAIN proc :
        Ended(p, "init") /\ proc[p].prev = CmdKind(proc[p]) =>
            Snapshot = proc[p].pre

\* a second init has succeeded on a sparse working tree
C6_Witness ==
    \E p \in DOMAIN proc :
        /\ Ended(p, "init") /\ ~Failed(p)
        /\ proc[p].prev = CmdKind(proc[p])
        /\ hasHead /\ materialized # HeadFiles
        /\ patternFile.exists

\* C7: disable is idempotent, and a disable that succeeds ends with no
\* pattern file, core.sparseCheckout false and every HEAD entry materialized.
C7_DisableIdempotentAndComplete ==
    \A p \in DOMAIN proc :
        /\ Ended(p, "disable") /\ ~Failed(p) =>
              /\ ~patternFile.exists
              /\ ~config.sparseCheckout
              /\ materialized = FullIndex
        /\ Ended(p, "disable") /\ proc[p].prev = "disable" =>
              Snapshot = proc[p].pre

\* a disable has succeeded from cone mode with entries skipped
C7_Witness ==
    \E p \in DOMAIN proc :
        /\ Ended(p, "disable") /\ ~Failed(p)
        /\ hasHead
        /\ proc[p].pre.index # HeadFiles
        /\ proc[p].pre.config.sparseCheckoutCone
        /\ proc[p].pre.file.exists

\* C8: a step of disable that turns core.sparseCheckout from true to false
\* is taken with the mode at AllPatterns and every HEAD entry materialized.
C8_DisableFlagAfterRestore ==
    [][\A p \in DOMAIN proc :
        /\ Acted(p) /\ proc[p].cmd = "disable"
        /\ config.sparseCheckout /\ ~config'.sparseCheckout
        => /\ ~config.sparseCheckoutCone
           /\ materialized = FullIndex]_vars

\* disable has just written the flag false after re-materializing entries
C8_Witness ==
    \E p \in DOMAIN proc :
        /\ proc[p].cmd = "disable" /\ proc[p].pc = "cfg_cone"
        /\ proc[p].site = "disable455"
        /\ ~config.sparseCheckout
        /\ hasHead /\ proc[p].pre.index # HeadFiles

\* C9: in cone mode, writing a pattern list, reading the file back into the
\* recursive and parent sets and writing again gives the identical file.
C9_ConeRoundTrip ==
    cone.step = "rewritten" => cone.again = cone.file

\* C10: the cone serializer emits the header, then the pairs of the parent
\* keys that are not recursive and not covered, sorted, then the lines of the
\* recursive keys that are not covered, sorted, and no other line.
C10_ConeLayout ==
    cone.step \in {"written", "read", "rewritten"} =>
        IsCanonicalLayout(cone.file, cone.pl)

\* a file with a parent pair, a recursive line, a recursive key that is also
\* a parent (no pair for it) and a pruned recursive key
C10_Witness ==
    /\ cone.step = "written"
    /\ LayoutParents(cone.pl) # {}
    /\ cone.pl.parent_hashmap \cap cone.pl.recursive_hashmap # {}
    /\ LayoutRecursives(cone.pl) # cone.pl.recursive_hashmap
    /\ Cardinality(LayoutRecursives(cone.pl)) >= 2

\* the key of a line "!<key>/*/"
PairKey(line) == SubSeq(line, 2, Len(line) - 3)

\* C11: the file written in cone mode has no line "k/" for a key k with a
\* strict ancestor in the recursive set, and no negation line "!k/*/" (the
\* mark of a parent pair) for a key k that is a recursive key or lies below
\* one.
C11_ConePrunesDescendants ==
    cone.step = "written" =>
        \A i \in 3..Len(cone.file) :
            LET line == cone.file[i]
            IN  IF line[1] = "!"
                THEN /\ PairKey(line) \notin cone.pl.recursive_hashmap
                     /\ ~Covered(cone.pl, PairKey(line))
                ELSE ~Covered(cone.pl, KeyOf(line))

\* a directory and two of its descendants were given: a recursive key and a
\* parent key lie below another recursive key
C11_Witness ==
    /\ cone.step = "written"
    /\ \E r \in cone.pl.recursive_hashmap : Covered(cone.pl, r)
    /\ \E k \in cone.pl.parent_hashmap \ cone.pl.recursive_hashmap : Covered(cone.pl, k)
    /\ Len(cone.file) > 2

\* C12: in the cone pattern list that set builds, every member of the
\* recursive set is also a member of the parent set.
C12_RecursiveSubsetOfParent ==
    cone.pl.recursive_hashmap \subseteq cone.pl.parent_hashmap

\* the strict ancestors of length at least 1 of a key: the key cut before
\* each of its slashes but the first character
Ancestors(k) == {Prefix(k, i - 1) : i \in {j \in 2..Len(k) : k[j] = "/"}}

\* C13: in every state of the insertion, before and after each single
\* argument, every strict ancestor of length at least 1 of every member of
\* the recursive set is a member of the parent set.
C13_AncestorsInParentSet ==
    \A r \in cone.pl.recursive_hashmap : Ancestors(r) \subseteq cone.pl.parent_hashmap

\* between two insertions, with a key three levels deep already inserted
C13_Witness ==
    /\ cone.step = "insert"
    /\ cone.input # <<>>
    /\ \E r \in cone.pl.recursive_hashmap : Cardinality(Ancestors(r)) >= 2

\* leading "/", no trailing "/", no "//", none of "*", "?", "[", no newline
IsCanonical(k) ==
    /\ k # <<>>
    /\ k[1] = "/"
    /\ k[Len(k)] # "/"
    /\ \A i \in 1..(Len(k) - 1) : ~(k[i] = "/" /\ k[i + 1] = "/")
    /\ \A i \in 1..Len(k) : k[i] \notin {"*", "?", "[", "\n"}

\* C14: every key that cone insertion places in the recursive set or the
\* parent set is canonical, for every input string.
C14_KeysCanonical ==
    \A k \in cone.pl.recursive_hashmap \cup cone.pl.parent_hashmap : IsCanonical(k)

\* an input that is empty, all white space, or only slashes
IsBlankInput(s) ==
    \/ \A i \in 1..Len(s) : IsSpace(s[i])
    \/ \A i \in 1..Len(s) : s[i] = "/"

\* C15: no insertion puts the zero-length key into the recursive set or the
\* parent set, and the insertion of an input that is empty, all white space
\* or only slashes changes neither set.
C15_RootNeverInserted ==
    [][/\ <<>> \notin cone'.pl.recursive_hashmap \cup cone'.pl.parent_hashmap
       /\ (/\ cone.step = "insert"
           /\ cone.input # <<>>
           /\ IsBlankInput(Head(cone.input))) => cone'.pl = cone.pl]_vars

\* a key was inserted, then an empty, a white-space and a slashes-only input
\* were given, and the sets hold what the key put there
C15_Witness ==
    /\ cone.step = "insert"
    /\ cone.input = <<>>
    /\ Len(cone.given) >= 2
    /\ cone.given[1] = <<"d", "/", "e">>
    /\ \A i \in 2..Len(cone.given) : IsBlankInput(cone.given[i])
    /\ \E i \in 2..Len(cone.given) : cone.given[i] = <<"/", "/">>
    /\ cone.pl.recursive_hashmap = {<<"/", "d", "/", "e">>}
    /\ cone.pl.parent_hashmap = {<<"/", "d">>}

\* C16: while sparse-checkout.lock is held by another process, no step of a
\* set changes the pattern file or takes the lock, and the set does not
\* return success.
C16_SetFailsWhenLockTaken ==
    [][\A p \in DOMAIN proc :
        Acted(p) /\ proc[p].cmd = "set" /\ sparse_lock = "other" =>
            /\ patternFile' = patternFile
            /\ sparse_lock' = "other"
            /\ proc'[p].pc = "done" => Failed(p)']_vars

\* a set has died on the lock of another process, with a pattern file in
\* place
C16_Witness ==
    \E p \in DOMAIN proc :
        /\ Ended(p, "set") /\ proc[p].exit = 128
        /\ proc[p].site = "wpau313"
        /\ sparse_lock = "other"
        /\ hasHead
        /\ patternFile.exists /\ patternFile = proc[p].pre.file

\* C17: when a set that was invoked with core.sparseCheckout false has
\* returned, the flag is true if the set succeeded and false if it failed.
C17_SetFlagFollowsOutcome ==
    \A p \in DOMAIN proc :
        Ended(p, "set") /\ ~proc[p].pre.config.sparseCheckout =>
            (config.sparseCheckout <=> ~Failed(p))

\* the patterns of the set include no file of HEAD
MatchesNone(args, cone_mode) ==
    \A f \in HeadFiles : ~Included(SetList(args, cone_mode), f)

\* C18: with a HEAD, some entry is materialized in every state; and a set
\* whose patterns match no entry of HEAD fails, leaves the pattern file as
\* it was and leaves no index.lock of its own.
C18_NeverEmptyCheckout ==
    /\ hasHead => materialized # {}
    /\ \A p \in DOMAIN proc :
          /\ Ended(p, "set") /\ hasHead
          /\ MatchesNone(proc[p].args, proc[p].core_sparse_checkout_cone)
          => /\ Failed(p)
             /\ patternFile = proc[p].pre.file
             /\ index_lock # p

\* a set that matches nothing has failed in the merge under the lock, on a
\* sparse working tree with a pattern file
C18_Witness ==
    \E p \in DOMAIN proc :
        /\ Ended(p, "set") /\ proc[p].exit = 1
        /\ hasHead /\ modified = {}
        /\ MatchesNone(proc[p].args, proc[p].core_sparse_checkout_cone)
        /\ patternFile.exists
        /\ materialized # HeadFiles
        /\ index_lock = "none"

\* the patterns of the set exclude a file that is materialized and locally
\* modified
ExcludesModified(args, cone_mode, index) ==
    \E f \in modified \cap index : ~Included(SetList(args, cone_mode), f)

\* C19: no step of a set removes a locally modified file from the working
\* tree; and a set whose patterns exclude a locally modified file returns
\* failure with the pattern file and the materialized files as they were
\* before the call.
C19_SetKeepsModifiedFiles ==
    [][\A p \in DOMAIN proc :
        Acted(p) /\ proc[p].cmd = "set" /\ hasHead =>
            /\ (modified \cap materialized) \subseteq materialized'
            /\ (/\ proc'[p].pc = "done"
                /\ ExcludesModified(proc[p].args, proc[p].core_sparse_checkout_cone,
                                    proc[p].pre.index))
               => /\ Failed(p)'
                  /\ patternFile' = proc[p].pre.file
                  /\ materialized' = proc[p].pre.index]_vars

\* the files of HEAD that the patterns of a pattern file include
FilesOf(lines) ==
    {f \in HeadFiles : Included(add_patterns_from_file_to_list(lines, FALSE), f)}

\* C20: no step of init changes a pattern file that exists; a step of init
\* that creates the pattern file gives it exactly the lines "/*" and "!/*/";
\* and when init returns success on a repository with a HEAD, the
\* materialized files are those the pattern file includes.
C20_InitKeepsExistingFile ==
    [][\A p \in DOMAIN proc :
        Acted(p) /\ proc[p].cmd = "init" =>
            /\ patternFile.exists => patternFile' = patternFile
            /\ ~patternFile.exists /\ patternFile'.exists =>
                  patternFile'.lines = << <<"/", "*">>, <<"!", "/", "*", "/">> >>
            /\ proc'[p].pc = "done" /\ proc'[p].exit = 0 /\ hasHead =>
                  materialized' = FilesOf(patternFile'.lines)]_vars

\* init has succeeded on a pattern file that is not the seed, and the
\* working tree was changed to it
C20_Witness ==
    \E p \in DOMAIN proc :
        /\ Ended(p, "init") /\ ~Failed(p)
        /\ hasHead
        /\ proc[p].pre.file.exists
        /\ proc[p].pre.file.lines # SeedLines
        /\ patternFile = proc[p].pre.file
        /\ materialized # proc[p].pre.index

\* the mode the pair (core.sparseCheckout, core.sparseCheckoutCone) stands for
ModeOf(c) ==
    IF ~c.sparseCheckout THEN "NoPatterns"
    ELSE IF c.sparseCheckoutCone THEN "ConePatterns"
    ELSE "AllPatterns"

\* C21 as stated: between its start and its return a command changes the
\* mode only along the stated arrows: init without --cone or set from
\* NoPatterns to AllPatterns, init --cone from NoPatterns to ConePatterns,
\* set between AllPatterns and ConePatterns, disable from any mode to
\* NoPatterns.
C21_ModeStateMachine ==
    \A p \in DOMAIN proc :
        proc[p].pc = "done" =>
            LET l    == proc[p]
                from == ModeOf(l.pre.config)
                to   == ModeOf(config)
            IN  \/ FlagsOf(config) = FlagsOf(l.pre.config)
                \/ /\ (l.cmd = "init" /\ ~l.cone_opt) \/ l.cmd = "set"
                   /\ from = "NoPatterns" /\ to = "AllPatterns"
                \/ /\ l.cmd = "init" /\ l.cone_opt
                   /\ from = "NoPatterns" /\ to = "ConePatterns"
                \/ /\ l.cmd = "set"
                   /\ {from, to} = {"AllPatterns", "ConePatterns"}
                \/ /\ l.cmd = "disable" /\ to = "NoPatterns"

\* C21 as the code has it: the cone flag is never true with the sparse flag
\* false.  When a command has returned, whether it succeeded or failed:
\* init without --cone has left the mode as it was or moved it to
\* AllPatterns, and to AllPatterns if it succeeded; init --cone has left it
\* as it was, moved it to ConePatterns, or moved it from NoPatterns to
\* AllPatterns, and to ConePatterns if it succeeded; set has left it as it
\* was or moved it from NoPatterns to AllPatterns, and never switches
\* between AllPatterns and ConePatterns; disable has left it as it was or
\* moved it to AllPatterns or NoPatterns, and to NoPatterns if it
\* succeeded; list changes nothing.
C21_ModeChanges ==
    /\ config.sparseCheckoutCone => config.sparseCheckout
    /\ \A p \in DOMAIN proc :
          proc[p].pc = "done" =>
              LET l    == proc[p]
                  from == ModeOf(l.pre.config)
                  to   == ModeOf(config)
              IN  CASE l.cmd = "init" /\ ~l.cone_opt ->
                         /\ to \in {from, "AllPatterns"}
                         /\ ~Failed(p) => to = "AllPatterns"
                    [] l.cmd = "init" /\ l.cone_opt ->
                         /\ \/ to \in {from, "ConePatterns"}
                            \/ from = "NoPatterns" /\ to = "AllPatterns"
                         /\ ~Failed(p) => to = "ConePatterns"
                    [] l.cmd = "set" ->
                         to = from \/ (from = "NoPatterns" /\ to = "AllPatterns")
                    [] l.cmd = "disable" ->
                         /\ to \in {from, "AllPatterns", "NoPatterns"}
                         /\ ~Failed(p) => to = "NoPatterns"
                    [] OTHER -> FlagsOf(config) = FlagsOf(l.pre.config)

\* init without --cone has succeeded in a repository that was in cone mode
C21_Witness ==
    \E p \in DOMAIN proc :
        /\ Ended(p, "init") /\ ~Failed(p) /\ ~proc[p].cone_opt
        /\ ModeOf(proc[p].pre.config) = "ConePatterns"
        /\ ModeOf(config) = "AllPatterns"
        /\ hasHead

\* the files of HEAD below a directory of ds or below one of its
\* subdirectories
FilesUnder(ds) ==
    {f \in HeadFiles :
        \E r \in ds : ParentDir(f) = r \/ IsAncestor(r, ParentDir(f))}

\* the files of HEAD that lie directly in the root or directly in a strict
\* ancestor directory of a directory of ds
FilesBeside(ds) ==
    {f \in HeadFiles :
        ParentDir(f) = <<>> \/ \E r \in ds : IsAncestor(ParentDir(f), r)}

\* a set in cone mode has succeeded on a repository with a HEAD
ConeSetDone(p) ==
    /\ Ended(p, "set") /\ ~Failed(p)
    /\ proc[p].core_sparse_checkout_cone
    /\ hasHead

\* C22 as stated: after a successful set in cone mode the materialized files
\* are exactly the files that have an ancestor directory in recursive_set
\* (a file is not a directory, so the second alternative of the claim gives
\* it nothing).
C22_ConeMatchRecursiveOnly ==
    \A p \in DOMAIN proc :
        ConeSetDone(p) =>
            materialized = FilesUnder(ConeListOf(proc[p].args).recursive_hashmap)

\* C22 as the code has it: after a successful set in cone mode the
\* materialized files are exactly the files below a directory of
\* recursive_set, together with the files that lie directly in the root or
\* directly in a strict ancestor directory of a recursive key.
C22_ConeMatchWithSiblingFiles ==
    \A p \in DOMAIN proc :
        ConeSetDone(p) =>
            LET rs == ConeListOf(proc[p].args).recursive_hashmap
            IN  materialized = FilesUnder(rs) \cup FilesBeside(rs)

\* set d/e has succeeded in cone mode: /d/e/a is materialized as a file
\* below the recursive key, /a and /d/a as files beside its ancestors, and
\* /f/a is not
C22_Witness ==
    \E p \in DOMAIN proc :
        /\ ConeSetDone(p)
        /\ proc[p].args = << <<"d", "/", "e">> >>
        /\ materialized = HeadFiles \ { <<"/", "f", "/", "a">> }

\* a pattern file without blank lines and without comment lines
NoCommentOrBlank(lines) ==
    \A i \in 1..Len(lines) : lines[i] # <<>> /\ lines[i][1] # "#"

C24_ListReadOnly ==
    [][\A p \in DOMAIN proc :
          Acted(p) /\ proc'[p].cmd = "list" =>
              /\ UNCHANGED <<patternFile, materialized, config, index_lock, sparse_lock>>
              /\ proc'[p].exit = 0]_vars

\* list has returned in a sparse repository that has no pattern file while
\* another process holds index.lock
C24_Witness ==
    \E p \in DOMAIN proc :
        /\ Ended(p, "list")
        /\ ~patternFile.exists
        /\ config.sparseCheckout
        /\ index_lock = "other"
        /\ proc[p].exit = 0

\* C25: when a write to the config store has failed during init, set or
\* disable, the command ends in failure.
C25_ConfigFailureFails ==
    \A p \in DOMAIN proc :
        proc[p].pc = "done" /\ proc[p].config_failed => Failed(p)

\* p commits index.lock in this step: the merge of update_working_directory
\* succeeded and the new index replaces the old one
CommitsIndex(p) ==
    /\ proc[p].pc = "uwd_unpack"
    /\ proc'[p].pc # "uwd_unpack"
    /\ unpack_trees([proc[p] EXCEPT !.core_apply_sparse_checkout = TRUE]) = 0

\* C26: set commits index.lock only while it holds sparse-checkout.lock, so
\* its first commit of the index comes after the acquisition of the
\* pattern-file lock.
C26_SetCommitsIndexUnderSparseLock ==
    [][\A p \in DOMAIN proc :
          proc[p].cmd = "set" /\ CommitsIndex(p) => sparse_lock = p]_vars

\* update_working_directory of p ends in this step with a failed merge
MergeFails(p) ==
    /\ proc[p].pc = "uwd_unpack"
    /\ proc'[p].pc # "uwd_unpack"
    /\ unpack_trees([proc[p] EXCEPT !.core_apply_sparse_checkout = TRUE]) # 0

\* the caller of update_working_directory has received the error: the
\* result of write_patterns_and_update is set, or the command has ended in
\* failure; the call of line 324 discards the value
ErrorReturned(l) ==
    CASE l.site \in {"wpau313", "wpau319"} -> l.result # 0
      [] l.site = "wpau324" -> TRUE
      [] OTHER -> l.pc = "done" /\ l.exit # 0

\* C27: update_working_directory commits index.lock only when the one-way
\* merge succeeded, and then the lock is gone and the index is the merged
\* one; when the merge fails the lock is rolled back, the index is what it
\* was and the caller receives the error.
C27_CommitOnlyOnMergeSuccess ==
    [][\A p \in DOMAIN proc :
          /\ CommitsIndex(p) =>
                /\ index_lock = p /\ index_lock' = "none"
                /\ materialized' = NewIndex([proc[p] EXCEPT !.core_apply_sparse_checkout = TRUE])
          /\ MergeFails(p) =>
                /\ index_lock = p /\ index_lock' = "none"
                /\ materialized' = materialized
                /\ ErrorReturned(proc'[p])]_vars

\* the reconcile of init has failed on a full working tree because the seed
\* patterns exclude a locally modified file; the index is still full
C27_Witness ==
    \E p \in DOMAIN proc :
        /\ Ended(p, "init") /\ proc[p].exit = 1
        /\ hasHead /\ ~unmerged
        /\ EditedFile \in modified
        /\ materialized = HeadFiles
        /\ patternFile.lines = SeedLines
        /\ index_lock = "none"

C29_FlagsBeforeIndexLock ==
    [][\A p \in DOMAIN proc :
          index_lock # p /\ index_lock' = p =>
              /\ config.sparseCheckout
              /\ proc[p].cmd = "init" => config.sparseCheckoutCone = proc[p].cone_opt]_vars

\* C30: when the reconcile of init or of disable has failed after the
\* command wrote the flags, the command exits with core.sparseCheckout and
\* core.sparseCheckoutCone at the values they had before the call.
C30_FailedReconcileRevertsFlags ==
    \A p \in DOMAIN proc :
        /\ proc[p].pc = "done" /\ Failed(p)
        /\ proc[p].site \in {"init224", "disable449"}
        => FlagsOf(config) = FlagsOf(proc[p].pre.config)

\* the call of update_working_directory that set makes at line 319 ends in
\* this step, the call of line 313 having succeeded
SecondCallEnds(p) ==
    /\ proc[p].pc = "uwd_unpack"
    /\ proc'[p].pc # "uwd_unpack"
    /\ proc[p].site = "wpau319"
    /\ proc[p].result = 0

OneLeadingSlashMore(x, y) ==
    /\ y # <<>> /\ y[1] # "/"
    /\ x = <<"/">> \o y

\* x and y differ at most in white space at their ends
SameButWhitespace(x, y) == strbuf_trim(x) = strbuf_trim(y)

\* x and y differ at most in trailing slashes
SameButTrailingSlashes(x, y) ==
    strbuf_trim_trailing_dir_sep(x) = strbuf_trim_trailing_dir_sep(y)

\* both lines have been canonicalized and their keys canonicalized again
Canonicalized == cone.step = "again"

\* C32 as stated: two input paths that differ only in surrounding white
\* space, only in trailing slashes, or only in one leading slash give the
\* same recursive key, and canonicalizing a key that is already canonical
\* returns it unchanged.
C32_CanonicalizationQuotient ==
    Canonicalized =>
        LET x == cone.given[1]  y == cone.given[2]
        IN  /\ \/ SameButWhitespace(x, y)
               \/ SameButTrailingSlashes(x, y)
               \/ OneLeadingSlashMore(x, y)
               => cone.keys[1] = cone.keys[2]
            /\ \A i \in 1..2 : \A k \in cone.keys[i] :
                  IsCanonicalKey(k) => cone.again[i] = {k}

\* C32 as the code has it: white space is trimmed first and trailing slashes
\* second.  Two input paths that, once their surrounding white space is
\* trimmed, differ only in trailing slashes, or that once white space and
\* trailing slashes are trimmed differ only in one leading slash, give the
\* same recursive key; and canonicalizing a canonical key that does not end
\* in white space returns it unchanged.
C32_CanonicalizationAfterTrim ==
    Canonicalized =>
        LET x == strbuf_trim(cone.given[1])  y == strbuf_trim(cone.given[2])
        IN  /\ \/ SameButTrailingSlashes(x, y)
               \/ OneLeadingSlashMore(strbuf_trim_trailing_dir_sep(x),
                                      strbuf_trim_trailing_dir_sep(y))
               => cone.keys[1] = cone.keys[2]
            /\ \A i \in 1..2 : \A k \in cone.keys[i] :
                  IsCanonicalKey(k) /\ ~IsSpace(k[Len(k)]) => cone.again[i] = {k}

\* " d/e " and "/d/e/" have been canonicalized: both give the key /d/e, and
\* canonicalizing that key gives it again
C32_Witness ==
    /\ Canonicalized
    /\ cone.given = << <<" ", "d", "/", "e", " ">>, <<"/", "d", "/", "e", "/">> >>
    /\ cone.keys = << { <<"/", "d", "/", "e">> }, { <<"/", "d", "/", "e">> } >>
    /\ cone.again = cone.keys

\* the entries of HEAD the pattern file selects, read in the dialect of the
\* config
FileSelects ==
    {f \in HeadFiles :
        Included(add_patterns_from_file_to_list(patternFile.lines,
                                                config.sparseCheckoutCone), f)}

\* C33: once two concurrent set invocations with different patterns have
\* both finished, the index and the pattern file agree: the materialized
\* entries are the ones the patterns of the pattern file select.
C33_IndexAgreesWithFile ==
    (\A p \in DOMAIN proc : Ended(p, "set")) /\ Cardinality(DOMAIN proc) = 2
        => materialized = FileSelects

\* the cone file set writes for a list of input paths
ConeFileOf(args) == write_cone_to_file(ConeListOf(args))

\* the lists that hold the elements of args in another order
Reorderings(args) ==
    LET n == Len(args)
        bijections == {f \in [1..n -> 1..n] : \A i, j \in 1..n : i # j => f[i] # f[j]}
    IN  {[i \in 1..n |-> args[f[i]]] : f \in bijections}

\* C34: the cone file depends only on the set of canonical input keys: the
\* file written for the given paths is the file written for the paths in
\* any other order, for the paths with one of them repeated, and for the
\* recursive keys themselves; and no line appears twice in it.
C34_ConeFileOfKeySet ==
    cone.step = "written" =>
        /\ \A g \in Reorderings(cone.given) : ConeFileOf(g) = cone.file
        /\ \A i \in 1..Len(cone.given) :
              ConeFileOf(Append(cone.given, cone.given[i])) = cone.file
        /\ ConeFileOf(string_list_sort(cone.pl.recursive_hashmap)) = cone.file
        /\ \A i, j \in 1..Len(cone.file) : i # j => cone.file[i] # cone.file[j]

\* the file written for "d/e/g", "a", "d/e/g": a repeated path, three
\* distinct orders, two recursive keys and two parent pairs
C34_Witness ==
    /\ cone.step = "written"
    /\ cone.given = << <<"d", "/", "e", "/", "g">>, <<"a">>, <<"d", "/", "e", "/", "g">> >>
    /\ Cardinality(cone.pl.recursive_hashmap) = 2
    /\ Len(cone.file) = 8

\* the parent pair of key a stands in out before line i
PairBefore(out, a, i) ==
    \E j \in 3..(i - 2) :
        /\ out[j] = a \o <<"/">>
        /\ out[j + 1] = <<"!">> \o a \o <<"/", "*", "/">>

\* C35: in the cone file set writes, every line "k/", be it a recursive line
\* or the first line of a parent pair, comes after the parent pair "a/",
\* "!a/*/" of every non-root strict ancestor a of k: the file is
\* ancestor-closed and lists ancestors before descendants.
C35_AncestorsListedFirst ==
    cone.step = "written" =>
        \A i \in 3..Len(cone.file) :
            cone.file[i][1] # "!" =>
                \A a \in Ancestors(KeyOf(cone.file[i])) :
                    PairBefore(cone.file, a, i)

\* the file written for "d/e/g" and "d/f": the pair of /d, the pair of /d/e
\* after it, and the two recursive lines after both
C35_Witness ==
    /\ cone.step = "written"
    /\ cone.file = << <<"/", "*">>, <<"!", "/", "*", "/">>,
                      <<"/", "d", "/">>, <<"!", "/", "d", "/", "*", "/">>,
                      <<"/", "d", "/", "e", "/">>, <<"!", "/", "d", "/", "e", "/", "*", "/">>,
                      <<"/", "d", "/", "e", "/", "g", "/">>,
                      <<"/", "d", "/", "f", "/">> >>

\* the paths the two matchers are compared on: the entries of HEAD and the
\* files of the directories the inputs name
MatchPaths ==
    HeadFiles \cup { <<"/", "d", "/", "e", "/", "g", "/", "a">>,
                     <<"/", "d", "/", "f", "/", "a">>,
                     <<"/", "a", "/", "a">> }

\* the verdict of the general dialect on the lines of a file
GeneralVerdict(lines, path) ==
    GeneralIncluded(add_patterns_from_file_to_list(lines, FALSE).patterns, path, FALSE)

\* C36: cone matching refines general matching: for the pattern list set
\* builds and every path, the verdict of the hash sets equals the verdict of
\* the written cone file evaluated as general-dialect patterns, the last
\* matching pattern winning.
C36_ConeRefinesGeneral ==
    cone.step = "written" =>
        \A f \in MatchPaths :
            ConeIncluded(cone.pl, f) = GeneralVerdict(cone.file, f)

\* C37: when the reconcile of disable has failed, the command has stopped
\* there: the pattern file holds the single line "/*" in place of the
\* user's patterns and has not been unlinked, and the mode is left at
\* AllPatterns, core.sparseCheckout true and core.sparseCheckoutCone false.
C37_FailedDisableLeavesMatchAll ==
    \A p \in DOMAIN proc :
        Ended(p, "disable") /\ Failed(p) /\ proc[p].site = "disable449" =>
            /\ patternFile = [exists |-> TRUE, lines |-> << <<"/", "*">> >>]
            /\ FlagsOf(config) = <<TRUE, FALSE>>
            /\ ModeOf(config) = "AllPatterns"

\* disable has died in its reconcile in a cone-mode repository whose pattern
\* file held patterns of the user
C37_Witness ==
    \E p \in DOMAIN proc :
        /\ Ended(p, "disable") /\ proc[p].exit = 128
        /\ proc[p].site = "disable449"
        /\ hasHead
        /\ FlagsOf(proc[p].pre.config) = <<TRUE, TRUE>>
        /\ proc[p].pre.file.exists
        /\ Len(proc[p].pre.file.lines) > 2
        /\ patternFile.lines = << <<"/", "*">> >>

\* C38: a set that starts with core.sparseCheckout true performs no config
\* write, on success or on failure: it never enters sc_set_config, and no
\* step of it changes core.sparseCheckout, core.sparseCheckoutCone or
\* extensions.worktreeConfig.
C38_EnabledSetWritesNoConfig ==
    [][\A p \in DOMAIN proc :
          proc'[p].cmd = "set" /\ proc'[p].pre.config.sparseCheckout =>
              /\ config' = config
              /\ proc'[p].pc \notin {"cfg_ext", "cfg_sparse", "cfg_cone"}
              /\ proc'[p].pc = "done" => config' = proc'[p].pre.config]_vars

\* a set has failed in its merge in a repository that was sparse already,
\* and the config is what it was
C38_Witness ==
    \E p \in DOMAIN proc :
        /\ Ended(p, "set") /\ proc[p].exit = 1
        /\ hasHead
        /\ proc[p].pre.config.sparseCheckout
        /\ config = proc[p].pre.config

\* C39: after a successful set the dialect of the written pattern file
\* agrees with the persisted mode, whatever the two flags were before the
\* call: the file is the canonical cone layout of the arguments if and only
\* if core.sparseCheckoutCone is true at the end of the command.
C39_FileDialectIsMode ==
    \A p \in DOMAIN proc :
        Ended(p, "set") /\ ~Failed(p) =>
            (IsCanonicalLayout(patternFile.lines, ConeListOf(proc[p].args))
                <=> config.sparseCheckoutCone)

\* the number of components of a key
Depth(k) == Cardinality({i \in 1..Len(k) : k[i] = "/"})

\* C40: the ancestor loop of cone insertion terminates for every canonical
\* key: each turn works on a strictly shorter key than the turn before, the
\* loop stops, and when it has stopped the key it holds has a single
\* component, its only slash the leading one, at most depth-1 keys have been
\* added to the parent set, and the parent set has gained exactly the keys
\* ParentKeys names.
C40_AncestorLoopTerminates ==
    /\ [][cone.step = "loop" /\ cone'.step = "loop" => Len(cone'.e) < Len(cone.e)]_vars
    /\ [](cone.step = "stopped" =>
            /\ LastSlash(cone.e) = 1
            /\ Depth(cone.e) = 1
            /\ cone.added <= Depth(cone.key) - 1
            /\ cone.parent_hashmap = cone.given \cup ParentKeys(cone.key))
    /\ <>(cone.step = "stopped")

\* the loop has stopped for /d/e/g on an empty parent set, two keys added
C40_Witness ==
    /\ cone.step = "stopped"
    /\ cone.key = <<"/", "d", "/", "e", "/", "g">>
    /\ cone.given = {}
    /\ cone.e = <<"/", "d">>
    /\ cone.added = 2
    /\ cone.parent_hashmap = { <<"/", "d">>, <<"/", "d", "/", "e">> }

====
